---- MODULE Spec2Model ----
(***************************************************************************)
(* Model of theme.js, the shared dark-mode theme controller of html-tools. *)
(*                                                                         *)
(* The script is an IIFE that runs once per page load: it looks up the     *)
(* toggle button and its icon, applies the preferred theme, registers a    *)
(* click listener and a system-preference listener, and exports            *)
(* window.themeManager.  localStorage survives page loads; the DOM, the    *)
(* listeners and window.* do not.                                          *)
(***************************************************************************)
EXTENDS Naturals, Sequences, FiniteSets

VARIABLES
    pc,             \* position of the script in the current page
    hasToggle,      \* document.getElementById('themeToggle') finds an element
    hasIcon,        \* the toggle holds a '.theme-icon' element
    darkMode,       \* document.body.classList contains 'dark-mode'
    icon,           \* themeIcon.textContent
    storage,        \* localStorage entry 'theme'
    sysDark,        \* matchMedia('(prefers-color-scheme: dark)').matches
    onThemeChange,  \* what window.onThemeChange holds
    clickListener,  \* toggleTheme is registered on the toggle's 'click'
    changeListener, \* the arrow function is registered on the query's 'change'
    themeManager,   \* window.themeManager exists
    preferred,      \* the value getPreferredTheme() returned to line 58
    warned,         \* console.warn was called in this page
    threw,          \* a TypeError was raised in this page
    cbCalls,        \* invocations of window.onThemeChange made by the last step
    ret,            \* value returned by themeManager.getTheme() in the last step
    \* history of the run, read by the properties only
    op,             \* the last step
    prevOp,         \* the step before it
    applied,        \* argument of the setTheme call made by the last step
    prevApplied,    \* the same for the step before it
    pre,            \* <<darkMode, icon, storage>> before the last step
    pre2,           \* <<darkMode, icon, storage>> before the step before it
    storedAtLoad,   \* localStorage entry 'theme' when the page was loaded
    sysAtLoad,      \* the system signal when the page was loaded
    clicked,        \* a click on the toggle has been handled (in any page)
    reloaded,       \* the page has been loaded again at least once
    initCalls,      \* setTheme calls made by the script body in this page
    oddArgs         \* arguments other than 'dark' and 'light' that
                    \* themeManager.setTheme was given in this page

vars == <<pc, hasToggle, hasIcon, darkMode, icon, storage, sysDark,
          onThemeChange, clickListener, changeListener, themeManager, warned,
          threw, cbCalls, ret, op, prevOp, applied, prevApplied, pre, pre2,
          storedAtLoad, sysAtLoad, clicked, reloaded, preferred, initCalls,
          oddArgs>>

----------------------------------------------------------------------------
(* Values *)

Dark == "dark"
Light == "light"
Theme == {Dark, Light}

\* localStorage.getItem returns null for a key that is not there
Absent == "<null>"

Sun == "sun"
Moon == "moon"
NoIcon == "<no element>"

\* What a page may find under 'theme' when it loads, and what a caller of
\* themeManager.setTheme may pass: the two themes, the empty string and some
\* other string.
OtherValue == "blue"
StoredValues == {Absent, "", Dark, Light, OtherValue}
ThemeArgs == {Dark, Light, "", OtherValue}

\* What window.onThemeChange may hold
CallbackKinds == {"undefined", "function", "object"}

NoCall == "<no call>"
NoRet == "<no return>"

----------------------------------------------------------------------------
(* The functions of the script *)

\* a test against null in place of the truthiness test
Truthy_NotNull(v) == v # Absent

\* JavaScript truthiness of a value read from localStorage
Truthy(v) == v # Absent /\ v # ""

MatchesTheme(matches) == IF matches THEN Dark ELSE Light

FoundIcon(toggle, nested) == IF toggle THEN nested ELSE FALSE

\* the guard with && in place of ||
MissingElements_Both(toggle, ic) == ~toggle /\ ~ic

MissingElements(toggle, ic) == ~toggle \/ ~ic

\* the fallback without the media query
GetPreferredTheme_LightDefault(saved, matches) ==
    IF Truthy(saved) THEN saved ELSE Light

\* a saved value that is not a theme sent to the fallback
GetPreferredTheme_Validated(saved, matches) ==
    IF saved \in Theme THEN saved ELSE MatchesTheme(matches)

\* the system preference consulted without looking at the saved value
GetPreferredTheme_SystemOnly(saved, matches) == MatchesTheme(matches)

GetPreferredTheme(saved, matches) ==
    IF Truthy(saved) THEN saved ELSE MatchesTheme(matches)

ClassListAdd(marker) == TRUE
ClassListRemove(marker) == FALSE
ClassListContains(marker) == marker

\* the else branch without its classList.remove
MarkerAfterSet_NeverRemove(theme, marker) ==
    IF theme = Dark THEN ClassListAdd(marker) ELSE marker

\* classList.toggle in place of classList.add
MarkerAfterSet_Toggle(theme, marker) ==
    IF theme = Dark THEN ~marker ELSE ClassListRemove(marker)

MarkerAfterSet(theme, marker) ==
    IF theme = Dark THEN ClassListAdd(marker) ELSE ClassListRemove(marker)

\* the glyph assignment of line 36 missing
IconAfterSet_AlwaysMoon(theme) == Moon

\* the two glyphs swapped
IconAfterSet_Swapped(theme) == IF theme = Dark THEN Moon ELSE Sun

IconAfterSet(theme) == IF theme = Dark THEN Sun ELSE Moon

\* an empty value removing the entry
SetItem_RemoveEmpty(old, value) == IF value = "" THEN Absent ELSE value

\* a write that only creates the entry and never overwrites it
SetItem_CreateOnly(old, value) == IF old = Absent THEN value ELSE old

SetItem(old, value) == value

\* a truthiness test in place of the typeof test
CallbackGuard_Truthy(cb) == cb # "undefined"

CallbackGuard(cb) == cb = "function"

CurrentTheme(marker) == IF ClassListContains(marker) THEN Dark ELSE Light

\* the comparison of line 53 inverted
Complement_Same(theme) == IF theme = Dark THEN Dark ELSE Light

Complement(theme) == IF theme = Dark THEN Light ELSE Dark

\* the test of line 66 without its negation
ChangeGuard_Inverted(saved) == Truthy(saved)

\* the listener without its test of the saved value
ChangeGuard_None(saved) == TRUE

ChangeGuard(saved) == ~Truthy(saved)

View == <<darkMode, icon, storage>>

\* the callback invoked at the top of setTheme
CallbackSees_Before(before, after) == before

\* What window.onThemeChange finds when it is invoked: the call of line 46
\* comes after lines 34-41.
CallbackSees(before, after) == after

----------------------------------------------------------------------------
(* Steps *)

Step(o) ==
    /\ op' = o
    /\ prevOp' = op
    /\ pre' = View
    /\ pre2' = pre
    /\ prevApplied' = applied

\* setTheme(theme), lines 33-48
SetTheme(theme) ==
    /\ darkMode' = MarkerAfterSet(theme, darkMode)
    /\ icon' = IconAfterSet(theme)
    /\ storage' = SetItem(storage, theme)
    /\ cbCalls' = IF CallbackGuard(onThemeChange) /\ onThemeChange = "function"
                  THEN <<[arg |-> theme,
                          marker |-> CallbackSees(View, View')[1],
                          icon |-> CallbackSees(View, View')[2],
                          stored |-> CallbackSees(View, View')[3],
                          surface |-> themeManager]>>
                  ELSE <<>>
    /\ threw' = (threw \/ (CallbackGuard(onThemeChange)
                           /\ onThemeChange # "function"))
    /\ applied' = theme

NoSetTheme ==
    /\ UNCHANGED <<darkMode, icon, storage, threw>>
    /\ cbCalls' = <<>>
    /\ applied' = NoCall

\* toggleTheme(), lines 51-55
ToggleTheme == SetTheme(Complement(CurrentTheme(darkMode)))

PageBase ==
    <<hasToggle, hasIcon, onThemeChange, storedAtLoad, sysAtLoad, reloaded>>

Page == <<PageBase, preferred, initCalls, oddArgs>>

\* lines 15-21
Guard ==
    /\ pc = "start"
    /\ IF MissingElements(hasToggle, FoundIcon(hasToggle, hasIcon))
       THEN warned' = TRUE /\ pc' = "inactive"
       ELSE warned' = warned /\ pc' = "resolve"
    /\ NoSetTheme
    /\ Step("guard")
    /\ UNCHANGED <<Page, sysDark, clickListener, changeListener, themeManager,
                   clicked>>
    /\ ret' = NoRet

\* line 58, the argument: getPreferredTheme()
Resolve ==
    /\ pc = "resolve"
    /\ preferred' = GetPreferredTheme(storage, sysDark)
    /\ pc' = "init"
    /\ NoSetTheme
    /\ Step("resolve")
    /\ UNCHANGED <<PageBase, initCalls, oddArgs, sysDark, clickListener,
                   changeListener, themeManager, warned, clicked>>
    /\ ret' = NoRet

\* line 58, the call
InitTheme ==
    /\ pc = "init"
    /\ SetTheme(preferred)
    /\ initCalls' = initCalls + 1
    /\ pc' = "applied"
    /\ Step("init")
    /\ UNCHANGED <<PageBase, preferred, oddArgs, sysDark, clickListener,
                   changeListener, themeManager, warned, clicked>>
    /\ ret' = NoRet

\* line 61 moved above line 58
AttachClick_BeforeInit ==
    /\ \/ pc = "resolve" /\ ~clickListener /\ clickListener' = TRUE /\ pc' = pc
       \/ pc = "applied" /\ clickListener' = clickListener
          /\ pc' = "clickAttached"
    /\ NoSetTheme
    /\ Step("attachClick")
    /\ UNCHANGED <<Page, sysDark, changeListener, themeManager, warned, clicked>>
    /\ ret' = NoRet

\* line 61
AttachClick ==
    /\ pc = "applied"
    /\ clickListener' = TRUE
    /\ pc' = "clickAttached"
    /\ NoSetTheme
    /\ Step("attachClick")
    /\ UNCHANGED <<Page, sysDark, changeListener, themeManager, warned, clicked>>
    /\ ret' = NoRet

\* lines 64-69, the registration
AttachChange ==
    /\ pc = "clickAttached"
    /\ changeListener' = TRUE
    /\ pc' = "changeAttached"
    /\ NoSetTheme
    /\ Step("attachChange")
    /\ UNCHANGED <<Page, sysDark, clickListener, themeManager, warned, clicked>>
    /\ ret' = NoRet

\* lines 72-78 moved above line 58
Export_BeforeInit ==
    /\ \/ pc = "resolve" /\ ~themeManager /\ themeManager' = TRUE /\ pc' = pc
       \/ pc = "changeAttached" /\ themeManager' = themeManager
          /\ pc' = "ready"
    /\ NoSetTheme
    /\ Step("export")
    /\ UNCHANGED <<Page, sysDark, clickListener, changeListener, warned, clicked>>
    /\ ret' = NoRet

\* lines 72-78
Export ==
    /\ pc = "changeAttached"
    /\ themeManager' = TRUE
    /\ pc' = "ready"
    /\ NoSetTheme
    /\ Step("export")
    /\ UNCHANGED <<Page, sysDark, clickListener, changeListener, warned, clicked>>
    /\ ret' = NoRet

\* The script has run to its end: the page handles events.
Idle == pc \in {"ready", "inactive"}

\* a click on the toggle button, dispatched to the listener of line 61
Click ==
    /\ Idle
    /\ hasToggle
    /\ IF clickListener THEN ToggleTheme ELSE NoSetTheme
    /\ clicked' = (clicked \/ clickListener)
    /\ Step("click")
    /\ UNCHANGED <<pc, Page, sysDark, clickListener, changeListener,
                   themeManager, warned>>
    /\ ret' = NoRet

\* the system preference changes; the listener of lines 64-69 gets the event
SystemChange ==
    /\ Idle
    /\ sysDark' = ~sysDark
    /\ IF changeListener /\ ChangeGuard(storage)
       THEN SetTheme(MatchesTheme(sysDark'))
       ELSE NoSetTheme
    /\ Step("change")
    /\ UNCHANGED <<pc, Page, clickListener, changeListener, themeManager,
                   warned, clicked>>
    /\ ret' = NoRet

\* window.themeManager.getTheme(), lines 73-75
CallGetTheme ==
    /\ Idle
    /\ themeManager
    /\ ret' = CurrentTheme(darkMode)
    /\ NoSetTheme
    /\ Step("getTheme")
    /\ UNCHANGED <<pc, Page, sysDark, clickListener, changeListener,
                   themeManager, warned, clicked>>

\* window.themeManager.setTheme(t), line 76
CallSetTheme(t) ==
    /\ Idle
    /\ themeManager
    /\ SetTheme(t)
    /\ oddArgs' = oddArgs \cup ({t} \ Theme)
    /\ Step("setTheme")
    /\ UNCHANGED <<pc, PageBase, preferred, initCalls, sysDark, clickListener,
                   changeListener, themeManager, warned, clicked>>
    /\ ret' = NoRet

\* window.themeManager.toggleTheme(), line 77
CallToggleTheme ==
    /\ Idle
    /\ themeManager
    /\ ToggleTheme
    /\ Step("toggleTheme")
    /\ UNCHANGED <<pc, Page, sysDark, clickListener, changeListener,
                   themeManager, warned, clicked>>
    /\ ret' = NoRet

\* the hosting page assigns window.onThemeChange (usage note 4)
RegisterCallback(k) ==
    /\ Idle
    /\ k # onThemeChange
    /\ onThemeChange' = k
    /\ NoSetTheme
    /\ Step("register")
    /\ UNCHANGED <<pc, hasToggle, hasIcon, storedAtLoad, sysAtLoad, reloaded,
                   preferred, initCalls, oddArgs, sysDark, clickListener, changeListener, themeManager,
                   warned, clicked>>
    /\ ret' = NoRet

\* A page that includes the script is loaded: a fresh document and window,
\* the localStorage of the origin as the last page left it.
FreshPage(toggle, nested, k, m) ==
    /\ pc' = "start"
    /\ hasToggle' = toggle
    /\ hasIcon' = nested
    /\ darkMode' = FALSE
    /\ icon' = IF FoundIcon(toggle, nested) THEN Moon ELSE NoIcon
    /\ sysDark' = m
    /\ onThemeChange' = k
    /\ clickListener' = FALSE
    /\ changeListener' = FALSE
    /\ themeManager' = FALSE
    /\ warned' = FALSE
    /\ threw' = FALSE
    /\ cbCalls' = <<>>
    /\ ret' = NoRet
    /\ op' = "load"
    /\ prevOp' = "load"
    /\ applied' = NoCall
    /\ prevApplied' = NoCall
    /\ pre' = <<darkMode', icon', storage'>>
    /\ pre2' = <<darkMode', icon', storage'>>
    /\ storedAtLoad' = storage'
    /\ sysAtLoad' = m
    /\ preferred' = NoCall
    /\ initCalls' = 0
    /\ oddArgs' = {}

Reload ==
    /\ Idle
    /\ UNCHANGED <<storage, clicked>>
    /\ \E toggle \in BOOLEAN, nested \in BOOLEAN, k \in CallbackKinds,
          m \in BOOLEAN : FreshPage(toggle, nested, k, m)
    /\ reloaded' = TRUE

Init ==
    /\ pc = "start"
    /\ hasToggle \in BOOLEAN
    /\ hasIcon \in BOOLEAN
    /\ darkMode = FALSE
    /\ icon = IF FoundIcon(hasToggle, hasIcon) THEN Moon ELSE NoIcon
    /\ storage \in StoredValues
    /\ sysDark \in BOOLEAN
    /\ onThemeChange \in CallbackKinds
    /\ clickListener = FALSE
    /\ changeListener = FALSE
    /\ themeManager = FALSE
    /\ warned = FALSE
    /\ threw = FALSE
    /\ cbCalls = <<>>
    /\ ret = NoRet
    /\ op = "load"
    /\ prevOp = "load"
    /\ applied = NoCall
    /\ prevApplied = NoCall
    /\ pre = <<darkMode, icon, storage>>
    /\ pre2 = <<darkMode, icon, storage>>
    /\ storedAtLoad = storage
    /\ sysAtLoad = sysDark
    /\ clicked = FALSE
    /\ reloaded = FALSE
    /\ preferred = NoCall
    /\ initCalls = 0
    /\ oddArgs = {}

Next ==
    \/ Guard
    \/ Resolve
    \/ InitTheme
    \/ AttachClick
    \/ AttachChange
    \/ Export
    \/ Click
    \/ SystemChange
    \/ CallGetTheme
    \/ \E t \in ThemeArgs : CallSetTheme(t)
    \/ CallToggleTheme
    \/ \E k \in CallbackKinds : RegisterCallback(k)
    \/ Reload

Spec == Init /\ [][Next]_vars

TypeOK ==
    /\ pc \in {"start", "resolve", "init", "applied", "clickAttached", "changeAttached",
               "ready", "inactive"}
    /\ darkMode \in BOOLEAN
    /\ icon \in {Sun, Moon, NoIcon}
    /\ storage \in StoredValues
    /\ Len(cbCalls) <= 1

----------------------------------------------------------------------------
(* Properties *)

\* The last step, or the one before it, ran toggleTheme (from a click or
\* through window.themeManager).
Toggled == op \in {"click", "toggleTheme"} /\ applied # NoCall
ToggledBefore == prevOp \in {"click", "toggleTheme"} /\ prevApplied # NoCall

\* C1: after setTheme(t) with t dark or light, whoever called it, the
\* dark-mode marker reads t, the stored 'theme' value is t, and a
\* themeManager.getTheme() made next returns t.
C1_SetThemeApplies ==
    /\ applied \in Theme =>
          CurrentTheme(darkMode) = applied /\ storage = applied
    /\ (op = "getTheme" /\ prevApplied \in Theme) => ret = prevApplied

C1_Witness ==
    /\ op = "getTheme"
    /\ prevOp = "setTheme"
    /\ prevApplied = Dark
    /\ pre2 = <<FALSE, Moon, Light>>
    /\ ret = Dark
    /\ storage = Dark

C3_Claim ==
    /\ (storedAtLoad = Absent /\ sysAtLoad /\ op = "init") => darkMode
    /\ (storedAtLoad = Absent /\ sysAtLoad /\ ~sysDark
        /\ op = "change" /\ prevOp = "export") => ~darkMode

\* C4 as claimed: two toggleTheme calls in a row bring marker, icon and
\* stored value back to what they were; one toggleTheme call yields the
\* complement of the theme the marker showed.
C4_Original ==
    /\ (Toggled /\ ToggledBefore) => View = pre2
    /\ Toggled => CurrentTheme(darkMode) # CurrentTheme(pre[1])

\* C4 as amended: two toggleTheme calls in a row bring marker and icon back
\* to what they were and leave the name of that theme stored, which is the
\* value stored before whenever that was "dark" or "light"; one toggleTheme
\* call yields the complement of the theme the marker showed.
C4_ToggleTwice ==
    /\ (Toggled /\ ToggledBefore) =>
          /\ darkMode = pre2[1]
          /\ icon = pre2[2]
          /\ storage = CurrentTheme(darkMode)
          /\ pre2[3] \in Theme => storage = pre2[3]
    /\ Toggled => CurrentTheme(darkMode) # CurrentTheme(pre[1])

C4_Witness ==
    /\ op = "click"
    /\ prevOp = "toggleTheme"
    /\ applied = Dark
    /\ prevApplied = Light
    /\ pre2 = <<TRUE, Sun, Dark>>
    /\ View = pre2

\* C5: setTheme(t) called right after setTheme(t), t dark or light, changes
\* nothing: marker, icon and stored value are those the first call left.
C5_SetThemeIdempotent ==
    (applied \in Theme /\ prevApplied = applied) => View = pre

C5_Witness ==
    /\ op = "setTheme"
    /\ prevOp = "setTheme"
    /\ applied = Dark
    /\ prevApplied = Dark
    /\ pre2[1] = FALSE
    /\ View = pre

\* C6: a step that calls setTheme while window.onThemeChange is a function
\* invokes it exactly once, with the theme; while it is anything else the
\* step invokes nothing, raises nothing and still sets marker, icon and
\* stored value; a step that does not call setTheme invokes nothing.
C6_CallbackOncePerSetTheme ==
    /\ (applied # NoCall /\ onThemeChange = "function") =>
          Len(cbCalls) = 1 /\ cbCalls[1].arg = applied
    /\ (applied # NoCall /\ onThemeChange # "function") =>
          /\ cbCalls = <<>>
          /\ ~threw
          /\ darkMode = (applied = Dark)
          /\ icon = (IF applied = Dark THEN Sun ELSE Moon)
          /\ storage = applied
    /\ applied = NoCall => cbCalls = <<>>

C6_Witness ==
    /\ op = "click"
    /\ onThemeChange = "function"
    /\ applied = Dark
    /\ cbCalls = <<[arg |-> Dark, marker |-> TRUE, icon |-> Sun,
                    stored |-> Dark, surface |-> TRUE]>>

\* C7: in a page without the toggle or without its icon the script warns and
\* stops: the marker stays off, the stored value is the one found at load,
\* no listener is registered, the callback is not invoked, themeManager is
\* not created and nothing is raised.
C7_MissingElementsNoOp ==
    (pc # "start" /\ (~hasToggle \/ ~hasIcon)) =>
        /\ pc = "inactive"
        /\ warned
        /\ ~darkMode
        /\ storage = storedAtLoad
        /\ ~clickListener
        /\ ~changeListener
        /\ applied = NoCall
        /\ cbCalls = <<>>
        /\ ~themeManager
        /\ ~threw

C7_Witness ==
    /\ pc = "inactive"
    /\ hasToggle
    /\ ~hasIcon
    /\ op = "click"
    /\ prevOp = "change"
    /\ onThemeChange = "function"
    /\ warned
    /\ storage = Absent

\* C8 as claimed: starting without a stored value, the 'theme' entry stays
\* absent until a click on the toggle has been handled.
C8_Claim ==
    (~reloaded /\ storedAtLoad = Absent /\ ~clicked) => storage = Absent

\* C9: every setTheme call writes its argument to the 'theme' entry; with no
\* stored value and the system signal light, initialization leaves the marker
\* off, the moon and "light" stored, and a click that comes next leaves the
\* marker on, the sun and "dark" stored.
C9_StorageWrittenOnEveryApply ==
    /\ applied # NoCall => storage = applied
    /\ (storedAtLoad = Absent /\ ~sysAtLoad /\ op = "init") =>
          View = <<FALSE, Moon, Light>>
    /\ (storedAtLoad = Absent /\ ~sysAtLoad /\ op = "click"
        /\ prevOp = "export") => View = <<TRUE, Sun, Dark>>

C9_Witness ==
    /\ storedAtLoad = Absent
    /\ ~sysAtLoad
    /\ op = "click"
    /\ prevOp = "export"
    /\ pre = <<FALSE, Moon, Light>>
    /\ View = <<TRUE, Sun, Dark>>

\* C10: in a page loaded after another one, initialization applies the theme
\* the earlier page left stored, dark or light, whatever the system signal.
C10_ReloadAppliesStored ==
    (reloaded /\ op = "init" /\ storedAtLoad \in Theme) =>
        CurrentTheme(darkMode) = storedAtLoad /\ storage = storedAtLoad

C10_Witness ==
    /\ reloaded
    /\ op = "init"
    /\ storedAtLoad = Dark
    /\ ~sysAtLoad
    /\ darkMode
    /\ icon = Sun

\* The script has passed line 58 in this page.
PastInit == pc \in {"applied", "clickAttached", "changeAttached", "ready"}

\* The page was loaded with no 'theme' entry or with a theme in it.
LoadedClean == storedAtLoad \in {Absent, Dark, Light}

\* C11: once the initial theme is applied, and in what every invocation of
\* window.onThemeChange finds, the icon is the sun exactly when the
\* dark-mode marker is on and the moon exactly when it is off.
C11_IconMatchesMarker ==
    /\ PastInit => (icon = Sun <=> darkMode) /\ (icon = Moon <=> ~darkMode)
    /\ \A i \in DOMAIN cbCalls :
          /\ cbCalls[i].icon = Sun <=> cbCalls[i].marker
          /\ cbCalls[i].icon = Moon <=> ~cbCalls[i].marker

C11_Witness ==
    /\ pc = "ready"
    /\ op = "click"
    /\ pre = <<FALSE, Moon, Light>>
    /\ darkMode
    /\ icon = Sun
    /\ Len(cbCalls) = 1
    /\ cbCalls[1].marker
    /\ cbCalls[1].icon = Sun

\* C12: no step removes the 'theme' entry: if it was there before the last
\* step, it is there after it.
C12_StorageNeverCleared == pre[3] # Absent => storage # Absent

C12_Witness ==
    /\ op = "setTheme"
    /\ applied = ""
    /\ pre[3] = Dark
    /\ storage = ""

\* C13 as claimed: getPreferredTheme returns the stored value whenever the
\* 'theme' entry exists and the theme of the system signal otherwise, and
\* changes nothing and invokes nothing.
C13_Original ==
    op = "resolve" =>
        /\ preferred = (IF storedAtLoad # Absent THEN storedAtLoad
                        ELSE MatchesTheme(sysAtLoad))
        /\ View = pre
        /\ cbCalls = <<>>

\* C13 as amended: getPreferredTheme returns the stored value whenever the
\* 'theme' entry exists and is not the empty string, and the theme of the
\* system signal otherwise; it changes nothing and invokes nothing.
C13_GetPreferredTheme ==
    op = "resolve" =>
        /\ preferred = (IF storedAtLoad \notin {Absent, ""} THEN storedAtLoad
                        ELSE MatchesTheme(sysAtLoad))
        /\ View = pre
        /\ View = <<FALSE, Moon, storedAtLoad>>
        /\ cbCalls = <<>>
        /\ applied = NoCall

C13_Witness ==
    /\ op = "resolve"
    /\ storedAtLoad = Absent
    /\ sysAtLoad
    /\ preferred = Dark
    /\ storage = Absent
    /\ onThemeChange = "function"

\* C14: in a page with both elements the script body calls setTheme once,
\* with what getPreferredTheme returned, and before it registers a listener;
\* no click and no system change is handled by a listener before that call.
C14_InitOnceBeforeListeners ==
    /\ PastInit => initCalls = 1
    /\ ~PastInit => initCalls = 0 /\ ~clickListener /\ ~changeListener
    /\ op = "init" => applied = preferred
    /\ (op = "click" /\ clickListener) => initCalls = 1
    /\ (op = "change" /\ changeListener) => initCalls = 1

C14_Witness ==
    /\ pc = "ready"
    /\ op = "click"
    /\ clickListener
    /\ changeListener
    /\ initCalls = 1
    /\ applied = Dark

\* C15: a page loaded with a stored value that is neither empty nor "dark"
\* is initialized light, marker off and moon, whatever the system signal.
C15_UnknownStoredIsLight ==
    (op = "init" /\ storedAtLoad \notin {Absent, "", Dark}) =>
        /\ applied = storedAtLoad
        /\ ~darkMode
        /\ icon = Moon

C15_Witness ==
    /\ op = "init"
    /\ storedAtLoad = OtherValue
    /\ sysAtLoad
    /\ ~darkMode
    /\ icon = Moon

\* C16: a step that changes the dark-mode marker while window.onThemeChange
\* is a function invokes it, with the theme setTheme was given; every
\* invocation finds marker, icon and stored value already set for that theme,
\* as they are when setTheme returns.
C16_CallbackLastAndOnEveryChange ==
    /\ (darkMode # pre[1] /\ onThemeChange = "function") =>
          /\ Len(cbCalls) = 1
          /\ cbCalls[1].arg = applied
          /\ applied \in Theme => applied = CurrentTheme(darkMode)
    /\ \A i \in DOMAIN cbCalls :
          /\ cbCalls[i].marker = (cbCalls[i].arg = Dark)
          /\ cbCalls[i].icon = (IF cbCalls[i].arg = Dark THEN Sun ELSE Moon)
          /\ cbCalls[i].stored = cbCalls[i].arg
          /\ <<cbCalls[i].marker, cbCalls[i].icon, cbCalls[i].stored>> = View

C16_Witness ==
    /\ op = "toggleTheme"
    /\ pre = <<TRUE, Sun, Dark>>
    /\ ~darkMode
    /\ Len(cbCalls) = 1
    /\ cbCalls[1].arg = Light
    /\ cbCalls[1].marker = FALSE
    /\ cbCalls[1].icon = Moon
    /\ cbCalls[1].stored = Light

C18_StoredEqualsApplied ==
    (LoadedClean /\ PastInit /\ oddArgs = {}) =>
        /\ storage \in Theme
        /\ storage = Dark <=> darkMode

C18_Witness ==
    /\ LoadedClean
    /\ oddArgs = {}
    /\ pc = "ready"
    /\ op = "setTheme"
    /\ prevOp = "click"
    /\ pre = <<TRUE, Sun, Dark>>
    /\ View = <<FALSE, Moon, Light>>

\* C19: window.themeManager exists only once the script body has called
\* setTheme and registered both listeners; the invocation of
\* window.onThemeChange made by that first setTheme finds no themeManager,
\* every other invocation finds it.
C19_SurfaceAfterInit ==
    /\ themeManager => initCalls = 1 /\ clickListener /\ changeListener
    /\ \A i \in DOMAIN cbCalls : cbCalls[i].surface <=> op # "init"

C19_Witness ==
    /\ op = "init"
    /\ Len(cbCalls) = 1
    /\ ~cbCalls[1].surface
    /\ ~themeManager
    /\ ~clickListener

====
